---- MODULE Spec2Model ----
(***************************************************************************)
(* Model of the Homelike commerce state engine of src/src/App.tsx: the     *)
(* React state cells of App, the load effect and the four persist effects, *)
(* and the handlers that mutate the cart, the profiles, the catalog and    *)
(* the order history.                                                      *)
(*                                                                         *)
(* A JavaScript string is a sequence of one-character strings, so that     *)
(* trim(), toLowerCase() and the slug regular expressions are computed.    *)
(* A JavaScript object is a function from its own keys to their values; a  *)
(* key holding undefined is in the domain and maps to Undefined.           *)
(* A stored localStorage item is a document: absent, the empty string,     *)
(* text JSON.parse rejects, or the JSON value the text denotes.            *)
(***************************************************************************)
EXTENDS Integers, Sequences, FiniteSets, TLC

\* ------------------------------------------------------------------ bounds
\* Date.now() readings a handler may observe are 1..MaxClock.
MaxClock == 2
\* Accepted orders per session, created products, saved profiles, sessions.
MaxOrders == 1
MaxCreated == 2
MaxUsers == 2
MaxSessions == 2
\* handleQuantityChange is called with values -2/2 .. MaxHalves/2.
MaxHalves == 5
\* Accepted orders in a session that follows the history as it grows.
MaxHistory == 2

\* ----------------------------------------------------------------- strings
Undefined == <<"\\undefined">>
Null == <<"\\null">>

S(c) == <<c>>

RECURSIVE trimStart(_)
trimStart(s) == IF s # <<>> /\ Head(s) = " " THEN trimStart(Tail(s)) ELSE s

RECURSIVE trimEnd(_)
trimEnd(s) ==
    IF s # <<>> /\ s[Len(s)] = " " THEN trimEnd(SubSeq(s, 1, Len(s) - 1)) ELSE s

\* String.prototype.trim
trim(s) == trimEnd(trimStart(s))

UpperCase == <<"A", "B", "C", "D", "E", "F", "G", "H", "I", "J", "K", "L", "M", "N",
               "O", "P", "Q", "R", "S", "T", "U", "V", "W", "X", "Y", "Z">>
LowerCase == <<"a", "b", "c", "d", "e", "f", "g", "h", "i", "j", "k", "l", "m", "n",
               "o", "p", "q", "r", "s", "t", "u", "v", "w", "x", "y", "z">>

lowerChar(c) ==
    IF \E i \in 1..26 : UpperCase[i] = c
    THEN LowerCase[CHOOSE i \in 1..26 : UpperCase[i] = c]
    ELSE c

\* String.prototype.toLowerCase
toLowerCase(s) == [i \in 1..Len(s) |-> lowerChar(s[i])]

\* The string kept as it is, empty or not.
orKept(s) == s

\* `x || undefined` on a string: the empty string is falsy.
orUndefined(s) == IF s = <<>> THEN Undefined ELSE s

\* `x ?? ""` on an optional string field.
orEmpty(v) == IF v = Undefined THEN <<>> ELSE v

\* Template literal `${n}` of a Date.now() reading.
digits(n) == S(CASE n = 0 -> "0" [] n = 1 -> "1" [] n = 2 -> "2" [] n = 3 -> "3"
                 [] n = 4 -> "4" [] OTHER -> "9")

\* -------------------------------------------------------------------- JSON
\* Keys whose value is a string or undefined. Every other key of the model
\* holds a number or an array, which JSON.stringify always keeps.
StringKeys ==
    {"id", "name", "email", "phone", "address", "city", "postalCode",
     "imageDataUrl", "createdAt", "customerName", "customerEmail",
     "customerPhone", "customerAddress", "customerCity", "customerPostalCode",
     "note", "paymentMethod", "userId", "adminEmail", "brandTagline",
     "supportPhone", "upiId", "minimumOrderNote", "0", "1"}

\* Reading o.k: a key the object does not own reads as undefined.
Get(o, k) == IF k \in DOMAIN o THEN o[k] ELSE Undefined

\* JSON.stringify of an object drops the keys that hold undefined.
stringifyObject(o) ==
    LET kept == {k \in DOMAIN o : ~(k \in StringKeys /\ o[k] = Undefined)}
    IN  [k \in kept |-> o[k]]

JsonNull == [t |-> "null"]
JsonArray(a) == [t |-> "arr", a |-> a]
JsonObject(o) == [t |-> "obj", o |-> o]

\* JSON.stringify of an array of flat objects (Spice[], User[], Order[]).
stringifyArray(a) ==
    [k |-> "json", v |-> JsonArray([i \in 1..Len(a) |-> stringifyObject(a[i])])]

\* JSON.stringify of the AdminConfig object.
stringifyConfig(o) == [k |-> "json", v |-> JsonObject(stringifyObject(o))]

Absent == [k |-> "absent"]
EmptyText == [k |-> "empty"]
Garbage == [k |-> "garbage"]

\* `if (stored)`: getItem returned a non-empty string.
truthy(doc) == doc.k \in {"garbage", "json"}

\* JSON.parse throws a SyntaxError on text that is not JSON.
parseThrows(doc) == doc.k = "garbage"

\* ------------------------------------------------------------------- state
STORAGE_KEYS == <<"admin", "spices", "users", "orders">>
Slots == {STORAGE_KEYS[i] : i \in 1..4}

defaultAdminConfig ==
    [adminEmail |-> <<>>,
     brandTagline |-> S("Small batch homestyle masalas for modern kitchens."),
     supportPhone |-> <<>>,
     upiId |-> <<>>,
     city |-> <<>>,
     minimumOrderNote |-> S("Free delivery in your city for orders above INR 400.")]

defaultSpices ==
    << [id |-> S("signature-garam-masala"), name |-> S("Signature Garam Masala"),
        price |-> 289],
       [id |-> <<"c", "h", "a", "i", "-", "m", "a", "s", "a", "l", "a">>,
        name |-> S("Sunday Chai Masala"), price |-> 249],
       [id |-> S("everyday-sabzi"), name |-> S("Everyday Sabzi Blend"), price |-> 199],
       [id |-> S("tadka-chilli-oil"), name |-> S("Flame Tadka Chilli Oil"),
        price |-> 320] >>

emptyDraft == [name |-> <<>>, price |-> [k |-> "empty", q |-> 0],
               imageDataUrl |-> Undefined]

VARIABLES
    storage,        \* localStorage: slot -> document
    phase,          \* "boot" before the first commit's effects ran, then "ready"
    initialized,
    adminConfig, spices, users, orders, currentUserId,
    quantities, paymentMethod,
    orderName, orderEmail, orderPhone, orderAddress, orderCity,
    orderPostalCode, orderNote,
    orderStatus, orderError, profileStatus, adminMessage,
    newSpice,
    reads,          \* FileReader reads in flight: the data URLs they will yield
    href,           \* window.location.href assignments so far (mailto hand-offs)
    writes,         \* setItem calls so far: the slot, the initialized flag seen
    session,        \* number of page loads so far
    saved,          \* stores at the end of the previous page load
    crashed         \* an error escaped an effect or a handler

stores == <<adminConfig, spices, users, orders>>
form == <<orderName, orderEmail, orderPhone, orderAddress, orderCity,
          orderPostalCode, orderNote, paymentMethod>>
messages == <<orderStatus, orderError, profileStatus, adminMessage>>
vars == <<storage, phase, initialized, stores, currentUserId, quantities, form,
          messages, newSpice, reads, href, writes, session, saved, crashed>>

\* ------------------------------------------------------------ construction
\* The useState initial values of App (lines 183-229): every page load
\* starts from these, whatever localStorage holds.
Constructed ==
    /\ phase = "boot"
    /\ initialized = FALSE
    /\ adminConfig = defaultAdminConfig
    /\ spices = defaultSpices
    /\ users = <<>>
    /\ orders = <<>>
    /\ currentUserId = Null
    /\ quantities = <<>>
    /\ paymentMethod = S("UPI")
    /\ orderName = <<>> /\ orderEmail = <<>> /\ orderPhone = <<>>
    /\ orderAddress = <<>> /\ orderCity = <<>> /\ orderPostalCode = <<>>
    /\ orderNote = <<>>
    /\ orderStatus = Null /\ orderError = Null
    /\ profileStatus = Null /\ adminMessage = Null
    /\ newSpice = emptyDraft
    /\ reads = {}
    /\ href = [to |-> <<>>, subject |-> <<>>, body |-> <<>>]
    /\ writes = {}

\* The same values, taken on by a new page load.
Reconstructed ==
    /\ phase' = "boot"
    /\ initialized' = FALSE
    /\ adminConfig' = defaultAdminConfig
    /\ spices' = defaultSpices
    /\ users' = <<>>
    /\ orders' = <<>>
    /\ currentUserId' = Null
    /\ quantities' = <<>>
    /\ paymentMethod' = S("UPI")
    /\ orderName' = <<>> /\ orderEmail' = <<>> /\ orderPhone' = <<>>
    /\ orderAddress' = <<>> /\ orderCity' = <<>> /\ orderPostalCode' = <<>>
    /\ orderNote' = <<>>
    /\ orderStatus' = Null /\ orderError' = Null
    /\ profileStatus' = Null /\ adminMessage' = Null
    /\ newSpice' = emptyDraft
    /\ reads' = {}
    /\ href' = [to |-> <<>>, subject |-> <<>>, body |-> <<>>]
    /\ writes' = {}

NoSaved == [s \in Slots |-> [synced |-> FALSE, value |-> <<>>]]

\* --------------------------------------------------------- persist effects
\* A persist effect without the initialized check: it writes on every pass.
persistGuardMissing(init) == TRUE

\* `if (!initialized || typeof window === "undefined") return;` lets the
\* effect write only when its closure saw initialized = true.
persistGuard(init) == init

\* The in-memory value each persist effect serialises.
stringifyStore(slot, admin, sp, us, os) ==
    CASE slot = "admin" -> stringifyConfig(admin)
      [] slot = "spices" -> stringifyArray(sp)
      [] slot = "users" -> stringifyArray(us)
      [] slot = "orders" -> stringifyArray(os)

\* One pass of the persist effects whose dependencies changed: the
\* setItem calls issued.
persistCalls(slots, init) ==
    IF persistGuard(init)
    THEN {[slot |-> s, initialized |-> init] : s \in slots}
    ELSE {}

\* A pass that writes every slot, whichever store changed.
persistStorageAll(st, slots, init, fails, admin, sp, us, os) ==
    [s \in Slots |->
        IF persistGuard(init) /\ s \notin fails
        THEN stringifyStore(s, admin, sp, us, os)
        ELSE st[s]]

\* localStorage after those calls (fails: the slots whose setItem throws,
\* e.g. on a full quota; the catch swallows the error).
persistStorage(st, slots, init, fails, admin, sp, us, os) ==
    [s \in Slots |->
        IF s \in slots /\ persistGuard(init) /\ s \notin fails
        THEN stringifyStore(s, admin, sp, us, os)
        ELSE st[s]]

\* A persist effect whose catch lets the error go on.
persistRethrows == FALSE

\* `catch (error) { console.error("Failed to save ...", error); }` handles
\* what setItem throws.
persistCatches == TRUE

\* An error leaves a persist effect: a setItem of the pass threw and was
\* not handled.
persistThrows(slots, init, fails) ==
    persistGuard(init) /\ slots \cap fails # {} /\ ~persistCatches

\* ------------------------------------------------------------- load effect
\* The statements of the try block run in the order admin, spices, users,
\* orders; a throwing JSON.parse leaves the block, skipping what follows.
loadThrowsAt(st, i) == truthy(st[STORAGE_KEYS[i]]) /\ parseThrows(st[STORAGE_KEYS[i]])

loadReaches(st, i) == \A j \in 1..(i - 1) : ~loadThrowsAt(st, j)

\* The JSON value a reached, truthy, parseable slot yields, else null.
loadParsed(st, i) ==
    LET doc == st[STORAGE_KEYS[i]]
    IN  IF loadReaches(st, i) /\ doc.k = "json" THEN doc.v ELSE JsonNull

\* `Array.isArray(parsed)`.
isArray(v) == v.t = "arr"

\* `parsed && typeof parsed === "object"`: arrays are objects too.
isObject(v) == v.t \in {"obj", "arr"}

\* The own enumerable properties an object spread copies: an array's are
\* its indices.
ownProperties(v) ==
    IF v.t = "obj" THEN v.o
    ELSE [k \in {digits(i - 1)[1] : i \in 1..Len(v.a)} |->
            v.a[CHOOSE i \in 1..Len(v.a) : digits(i - 1)[1] = k]]

\* `{ ...a, ...b }`.
spread(a, b) ==
    [k \in DOMAIN a \cup DOMAIN b |-> IF k \in DOMAIN b THEN b[k] ELSE a[k]]

loadAdmin(st) ==
    LET parsed == loadParsed(st, 1)
    IN  IF isObject(parsed) THEN spread(defaultAdminConfig, ownProperties(parsed))
        ELSE defaultAdminConfig

loadSpices(st) ==
    LET parsed == loadParsed(st, 2)
    IN  IF isArray(parsed) /\ Len(parsed.a) > 0 THEN parsed.a ELSE defaultSpices

loadUsers(st) ==
    LET parsed == loadParsed(st, 3)
    IN  IF isArray(parsed) THEN parsed.a ELSE <<>>

loadOrders(st) ==
    LET parsed == loadParsed(st, 4)
    IN  IF isArray(parsed) THEN parsed.a ELSE <<>>

\* `catch (error) { console.error(...) }` handles whatever the block throws.
loadCatches == TRUE

\* A load effect that sets the flag at the end of the try block only.
initializedOnSuccess(st) ==
    ~\E i \in 1..4 : loadReaches(st, i) /\ loadThrowsAt(st, i)

\* `finally { setInitialized(true); }` runs whether or not a load threw.
initializedAfterLoad(st) == TRUE

\* The first commit of a page load: the load effect runs, then the four
\* persist effects with the first render's closure (initialized = false,
\* the default stores); the state updates re-render with initialized =
\* true, and the persist effects run again, as all depend on initialized.
Mount(fails) ==
    /\ phase = "boot"
    /\ LET first == persistStorage(storage, Slots, initialized, fails,
                                   adminConfig, spices, users, orders)
       IN  /\ adminConfig' = loadAdmin(storage)
           /\ spices' = loadSpices(storage)
           /\ users' = loadUsers(storage)
           /\ orders' = loadOrders(storage)
           /\ initialized' = initializedAfterLoad(storage)
           /\ storage' = persistStorage(first, Slots, initialized', fails,
                                        adminConfig', spices', users', orders')
           /\ writes' = writes \cup persistCalls(Slots, initialized)
                        \cup persistCalls(Slots, initialized')
    /\ phase' = "ready"
    /\ crashed' = (\/ crashed
                    \/ ((\E i \in 1..4 : loadReaches(storage, i) /\ loadThrowsAt(storage, i))
                        /\ ~loadCatches)
                    \/ persistThrows(Slots, initialized', fails))
    /\ UNCHANGED <<currentUserId, quantities, form, messages, newSpice, reads,
                   href, session, saved>>

\* The store a slot persists.
storeOf(slot) ==
    CASE slot = "admin" -> adminConfig [] slot = "spices" -> spices
      [] slot = "users" -> users [] slot = "orders" -> orders

\* Closing the page and opening it again: React state is rebuilt from the
\* useState initial values, localStorage stays.
Reload ==
    /\ phase = "ready"
    /\ session < MaxSessions
    /\ session' = session + 1
    /\ saved' = [s \in Slots |->
                    [synced |-> storage[s] = stringifyStore(s, adminConfig, spices,
                                                            users, orders),
                     value |-> storeOf(s)]]
    /\ Reconstructed
    /\ UNCHANGED <<storage, crashed>>

\* The persist effects that follow a handler's state updates: those whose
\* store was given a new value (slots), run with the committed state.
Persisted(slots, fails) ==
    /\ storage' = persistStorage(storage, slots, initialized, fails,
                                 adminConfig', spices', users', orders')
    /\ writes' = writes \cup persistCalls(slots, initialized)
    /\ crashed' = (crashed \/ persistThrows(slots, initialized, fails))

\* -------------------------------------------------------------------- cart
\* A JavaScript number handed to handleQuantityChange: NaN, an infinity, or
\* the finite value h/2.
NaN == [k |-> "nan", h |-> 0]
Infinity == [k |-> "inf", h |-> 0]
NegInfinity == [k |-> "ninf", h |-> 0]
Finite(h) == [k |-> "fin", h |-> h]

isFinite(value) == value.k = "fin"

\* Math.floor of h/2.
floorHalves(h) == h \div 2

max(a, b) == IF a >= b THEN a ELSE b

\* A coercion that rounds to the nearest integer.
safeQuantityRounded(value) ==
    IF isFinite(value) THEN max(0, floorHalves(value.h + 1)) ELSE 0

\* `Number.isFinite(value) ? Math.max(0, Math.floor(value)) : 0`
safeQuantity(value) == IF isFinite(value) THEN max(0, floorHalves(value.h)) ELSE 0

\* The removal test with `<` for `<=`: a zero is stored.
removesEntryBelowZero(safe) == safe < 0

\* `safe <= 0`: the entry is removed rather than stored.
removesEntry(safe) == safe <= 0

\* The updater passed to setQuantities.
nextQuantities(prev, spiceId, value) ==
    LET safe == safeQuantity(value)
    IN  IF removesEntry(safe)
        THEN [k \in DOMAIN prev \ {spiceId} |-> prev[k]]
        ELSE [k \in DOMAIN prev \cup {spiceId} |-> IF k = spiceId THEN safe ELSE prev[k]]

handleQuantityChange(spiceId, value) ==
    /\ phase = "ready"
    /\ quantities' = nextQuantities(quantities, spiceId, value)
    /\ UNCHANGED <<storage, phase, initialized, stores, currentUserId, form,
                   messages, newSpice, reads, href, session, saved, crashed>>
    /\ writes' = writes

\* `quantities[spice.id] ?? 0`
quantityOf(q, id) == IF id \in DOMAIN q THEN q[id] ELSE 0

RECURSIVE reduceTotal(_, _, _)
reduceTotal(sp, q, i) ==
    IF i > Len(sp) THEN 0
    ELSE sp[i].price * quantityOf(q, sp[i].id) + reduceTotal(sp, q, i + 1)

\* `spices.reduce((sum, spice) => sum + spice.price * qty, 0)`
estimatedTotal == reduceTotal(spices, quantities, 1)

\* The selection test with 1 for 0.
hasSelectionAboveOne == \E k \in DOMAIN quantities : quantities[k] > 1

\* `Object.values(quantities).some((q) => q > 0)`
hasSelection == \E k \in DOMAIN quantities : quantities[k] > 0

\* ---------------------------------------------------------------- profiles
\* `!s.trim()`
isBlank(s) == trim(s) = <<>>

\* Index of the first element `find` returns, 0 when there is none.
findIndexById(us, id) ==
    IF \E i \in 1..Len(us) : us[i].id = id
    THEN CHOOSE i \in 1..Len(us) : us[i].id = id /\ \A j \in 1..(i - 1) : us[j].id # id
    ELSE 0

\* `users.find((u) => u.email.toLowerCase() === orderEmail.trim().toLowerCase())`
emailMatches(u, email) == toLowerCase(u.email) = toLowerCase(trim(email))

findIndexByEmail(us, email) ==
    IF \E i \in 1..Len(us) : emailMatches(us[i], email)
    THEN CHOOSE i \in 1..Len(us) :
            emailMatches(us[i], email) /\ \A j \in 1..(i - 1) : ~emailMatches(us[j], email)
    ELSE 0

\* `user-${Date.now()}`
newUserId(now) == <<"u", "s", "e", "r", "-">> \o digits(now)

\* The User object handleSaveProfile builds from the form.
profileBase(id) ==
    [id |-> id,
     name |-> trim(orderName),
     email |-> trim(orderEmail),
     phone |-> orUndefined(trim(orderPhone)),
     address |-> orUndefined(trim(orderAddress)),
     city |-> orUndefined(trim(orderCity)),
     postalCode |-> orUndefined(trim(orderPostalCode))]

\* The effect on [currentUser] (lines 322-330) copies the profile into
\* the form.
FillForm(user) ==
    /\ orderName' = user.name
    /\ orderEmail' = user.email
    /\ orderPhone' = orEmpty(Get(user, "phone"))
    /\ orderAddress' = orEmpty(Get(user, "address"))
    /\ orderCity' = orEmpty(Get(user, "city"))
    /\ orderPostalCode' = orEmpty(Get(user, "postalCode"))

\* The users array after a save that passed validation: the profile with
\* the form's email is replaced, or a new one is appended (lines 357-379).
nextUsers(us, now) ==
    LET at == findIndexByEmail(us, orderEmail)
        existing == us[at]
        base == profileBase(IF at # 0 THEN existing.id ELSE newUserId(now))
    IN  IF at # 0
        THEN [i \in 1..Len(us) |-> IF us[i].id = existing.id THEN base ELSE us[i]]
        ELSE Append(us, base)

\* A validation that looks at the name only.
profileIncompleteNameOnly == isBlank(orderName)

\* `if (!orderName.trim() || !orderEmail.trim())`
profileIncomplete == isBlank(orderName) \/ isBlank(orderEmail)

handleSaveProfile(now, fails) ==
    /\ phase = "ready"
    /\ IF profileIncomplete
       THEN /\ profileStatus' =
                  S("Add at least name and email before saving as a profile.")
            /\ writes' = writes
            /\ UNCHANGED <<storage, stores, currentUserId, form, crashed>>
       ELSE LET at == findIndexByEmail(users, orderEmail)
                existing == users[at]
                base == profileBase(IF at # 0 THEN existing.id ELSE newUserId(now))
                \* currentUser before and after, as an index of the array.
                before == findIndexById(users, currentUserId)
            IN  /\ IF at # 0
                   THEN /\ users' = nextUsers(users, now)
                        /\ currentUserId' = existing.id
                        /\ profileStatus' = S("Updated your saved profile.")
                   ELSE /\ users' = nextUsers(users, now)
                        /\ currentUserId' = base.id
                        /\ profileStatus' = S("Saved a new profile in this browser.")
                /\ LET after == findIndexById(users', currentUserId')
                   IN  \* The effect runs when currentUser is another object.
                       IF at = 0 /\ after = before
                       THEN UNCHANGED <<orderName, orderEmail, orderPhone, orderAddress,
                                        orderCity, orderPostalCode>>
                       ELSE FillForm(users'[after])
                /\ UNCHANGED <<adminConfig, spices, orders, orderNote, paymentMethod>>
                /\ Persisted({"users"}, fails)
    /\ UNCHANGED <<phase, initialized, quantities, orderStatus, orderError,
                   adminMessage, newSpice, reads, href, session, saved>>

handleUseProfile(i) ==
    /\ phase = "ready"
    /\ i \in 1..Len(users)
    /\ currentUserId' = users[i].id
    /\ LET before == findIndexById(users, currentUserId)
           after == findIndexById(users, users[i].id)
       IN  \* The handler fills the form from the clicked profile; the effect
           \* then fills it from currentUser when that is another object.
           FillForm(IF after # before THEN users[after] ELSE users[i])
    /\ writes' = writes
    /\ UNCHANGED <<storage, phase, initialized, stores, quantities, orderNote,
                   paymentMethod, messages, newSpice, reads, href, session, saved, crashed>>

\* ------------------------------------------------------------------ orders
\* A filter that keeps quantities above 1 only.
positiveQtyAboveOne(x) == x.qty > 1

\* `(x) => x.qty > 0`
positiveQty(x) == x.qty > 0

\* `spices.map(...).filter((x) => x.qty > 0)`
selectedOf(sp, q) ==
    SelectSeq([i \in 1..Len(sp) |-> [spice |-> sp[i], qty |-> quantityOf(q, sp[i].id)]],
              positiveQty)

\* `selected.map(({ spice, qty }) => ({ ... }))`
itemsOf(selected) ==
    [i \in 1..Len(selected) |->
        [spiceId |-> selected[i].spice.id,
         name |-> selected[i].spice.name,
         quantity |-> selected[i].qty,
         unitPrice |-> selected[i].spice.price,
         subtotal |-> selected[i].spice.price * selected[i].qty]]

RECURSIVE reduceSubtotals(_, _)
reduceSubtotals(items, i) ==
    IF i > Len(items) THEN 0 ELSE items[i].subtotal + reduceSubtotals(items, i + 1)

\* `items.reduce((sum, item) => sum + item.subtotal, 0)`
totalOf(items) == reduceSubtotals(items, 1)

\* `HL-${Date.now()}`
newOrderId(now) == <<"H", "L", "-">> \o digits(now)

\* The Order object handlePlaceOrder builds.
orderOf(now, items) ==
    [id |-> newOrderId(now),
     createdAt |-> <<"T">> \o digits(now),
     customerName |-> trim(orderName),
     customerEmail |-> trim(orderEmail),
     customerPhone |-> orUndefined(trim(orderPhone)),
     customerAddress |-> orUndefined(trim(orderAddress)),
     customerCity |-> orUndefined(trim(orderCity)),
     customerPostalCode |-> orUndefined(trim(orderPostalCode)),
     note |-> orUndefined(trim(orderNote)),
     paymentMethod |-> paymentMethod,
     items |-> items,
     total |-> totalOf(items),
     userId |-> IF currentUserId = Null THEN Undefined ELSE currentUserId]

MissingContact == S("Please add your name and email so we can confirm your order.")
EmptyCart == S("Add at least one spice to your order.")
Drafted == S("Order drafted. Your email app should open with a ready to send order email to the Homelike admin.")
StoredOnly == S("Order saved in the local admin panel. Add an admin email in the Admin Panel to enable one click email sending.")

\* The first check without the email.
contactMissingNameOnly == isBlank(orderName)

\* The first check of handlePlaceOrder (line 397).
contactMissing == isBlank(orderName) \/ isBlank(orderEmail)

\* The second check (line 406).
nothingSelected(selected) == Len(selected) = 0

\* The two checks in the other order.
rejectionCartFirst(selected) ==
    IF Len(selected) = 0 THEN EmptyCart
    ELSE IF isBlank(orderName) \/ isBlank(orderEmail) THEN MissingContact
    ELSE Null

\* The checks in the order the handler makes them, each returning at once:
\* the error it reports, Null when the submission goes through.
rejection(selected) ==
    IF contactMissing THEN MissingContact
    ELSE IF nothingSelected(selected) THEN EmptyCart
    ELSE Null

\* A submission that leaves the note in the form.
noteKept == orderNote

\* `setQuantities({})` and `setOrderNote("")` (lines 493-494).
quantitiesAfterOrder == <<>>
noteAfterOrder == <<>>

\* -------------------------------------------------------------- receipt
\* Template literal `${n}` of a non-negative integer.
RECURSIVE decimalOf(_)
decimalOf(n) ==
    LET d == <<"0", "1", "2", "3", "4", "5", "6", "7", "8", "9">>
    IN  IF n < 10 THEN <<d[n + 1]>> ELSE decimalOf(n \div 10) \o <<d[(n % 10) + 1]>>

\* The digits before the last three, in groups of two (en-IN grouping).
RECURSIVE groupPairs(_)
groupPairs(ds) ==
    IF Len(ds) <= 2 THEN ds
    ELSE groupPairs(SubSeq(ds, 1, Len(ds) - 2)) \o <<",">>
         \o SubSeq(ds, Len(ds) - 1, Len(ds))

groupIndian(ds) ==
    IF Len(ds) <= 3 THEN ds
    ELSE groupPairs(SubSeq(ds, 1, Len(ds) - 3)) \o <<",">>
         \o SubSeq(ds, Len(ds) - 2, Len(ds))

Rupee == "\\u20b9"

\* `amount.toLocaleString("en-IN", { style: "currency", currency: "INR",
\* maximumFractionDigits: 0 })` of a non-negative integer.
formatINR(amount) == <<Rupee>> \o groupIndian(decimalOf(amount))

\* `lines.join(sep)`
RECURSIVE join(_, _)
join(lines, sep) ==
    IF lines = <<>> THEN <<>>
    ELSE IF Len(lines) = 1 THEN lines[1]
    ELSE lines[1] \o sep \o join(Tail(lines), sep)

\* `if (x)` on an optional string: undefined and "" are falsy.
present(v) == v # Undefined /\ v # <<>>

\* The city and the postal code in one part, a blank between them.
cityLine(order) ==
    trim(orEmpty(order.customerCity) \o <<" ">> \o orEmpty(order.customerPostalCode))

\* The parts of the address line (lines 448-454).
addressLinesOf(order) ==
    (IF present(order.customerAddress) THEN <<order.customerAddress>> ELSE <<>>)
    \o (IF present(order.customerCity) \/ present(order.customerPostalCode)
        THEN <<cityLine(order)>> ELSE <<>>)

\* One line of lineItemsText (lines 439-446).
itemLine(item) ==
    <<"- ">> \o item.name \o <<" x">> \o decimalOf(item.quantity) \o <<" @ ">>
    \o formatINR(item.unitPrice) \o <<" = ">> \o formatINR(item.subtotal)

\* bodyLines as handlePlaceOrder builds it (lines 456-472).
bodyLinesOf(order) ==
    << <<"New Homelike order: ">> \o order.id,
       <<>>,
       <<"Customer: ">> \o order.customerName,
       <<"Email: ">> \o order.customerEmail >>
    \o (IF present(order.customerPhone)
        THEN << <<"Phone: ">> \o order.customerPhone >> ELSE <<>>)
    \o (IF Len(addressLinesOf(order)) # 0
        THEN << <<"Address: ">> \o join(addressLinesOf(order), <<",", " ">>) >>
        ELSE <<>>)
    \o << <<>>,
          <<"Items:">>,
          join([i \in 1..Len(order.items) |-> itemLine(order.items[i])], <<"\n">>),
          <<>>,
          <<"Total: ">> \o formatINR(order.total),
          <<"Payment method: ">> \o order.paymentMethod >>
    \o (IF present(order.note)
        THEN << <<>>, <<"Customer note: ">> \o order.note >> ELSE <<>>)
    \o << <<>>, <<"This order was placed from the Homelike startup site.">> >>

\* `bodyLines.join("\n")`
emailBodyOf(order) == join(bodyLinesOf(order), <<"\n">>)

\* The mailto URL assigned to window.location.href, by its three fields.
mailtoOf(to, order) == [to |-> to, subject |-> order.id, body |-> emailBodyOf(order)]

\* An updater that puts the new order first.
prependOrder(prev, order) == <<order>> \o prev

\* `setOrders((prev) => [...prev, order])`
appendOrder(prev, order) == Append(prev, order)

\* A hand-off made whatever the configured address.
handsOffAlways(trimmedAdminEmail) == TRUE

\* `if (trimmedAdminEmail && typeof window !== "undefined")`
handsOff(trimmedAdminEmail) == trimmedAdminEmail # <<>>

handlePlaceOrder(now, fails) ==
    /\ phase = "ready"
    /\ LET selected == selectedOf(spices, quantities)
           items == itemsOf(selected)
           order == orderOf(now, items)
           trimmedAdminEmail == trim(adminConfig.adminEmail)
       IN  IF rejection(selected) # Null
           THEN /\ orderError' = rejection(selected)
                /\ orderStatus' = Null
                /\ writes' = writes
                /\ UNCHANGED <<storage, orders, quantities, orderNote, href, crashed>>
           ELSE /\ orderError' = Null
                /\ orders' = appendOrder(orders, order)
                /\ IF handsOff(trimmedAdminEmail)
                   THEN /\ href' = mailtoOf(trimmedAdminEmail, order)
                        /\ orderStatus' = Drafted
                   ELSE /\ href' = href
                        /\ orderStatus' = StoredOnly
                /\ quantities' = quantitiesAfterOrder
                /\ orderNote' = noteAfterOrder
                /\ Persisted({"orders"}, fails)
    /\ UNCHANGED <<phase, initialized, adminConfig, spices, users, currentUserId,
                   orderName, orderEmail, orderPhone, orderAddress, orderCity,
                   orderPostalCode, paymentMethod, profileStatus, adminMessage,
                   newSpice, reads, session, saved>>

\* ----------------------------------------------------------------- catalog
\* [a-z0-9]
isAlnum(c) ==
    \/ \E i \in 1..26 : LowerCase[i] = c
    \/ c \in {"0", "1", "2", "3", "4", "5", "6", "7", "8", "9"}

RECURSIVE skipNonAlnum(_)
skipNonAlnum(s) == IF s # <<>> /\ ~isAlnum(Head(s)) THEN skipNonAlnum(Tail(s)) ELSE s

\* `.replace(/[^a-z0-9]+/g, "-")`
RECURSIVE hyphenate(_)
hyphenate(s) ==
    IF s = <<>> THEN <<>>
    ELSE IF isAlnum(Head(s)) THEN <<Head(s)>> \o hyphenate(Tail(s))
    ELSE <<"-">> \o hyphenate(skipNonAlnum(s))

\* `.replace(/(^-|-$)+/g, "")`
stripHyphens(s) ==
    LET a == IF s # <<>> /\ Head(s) = "-" THEN Tail(s) ELSE s
    IN  IF a # <<>> /\ a[Len(a)] = "-" THEN SubSeq(a, 1, Len(a) - 1) ELSE a

baseIdOf(name) == stripHyphens(hyphenate(toLowerCase(name)))

\* `baseId || `spice-${Date.now()}``
candidateIdOf(name, now) ==
    IF baseIdOf(name) # <<>> THEN baseIdOf(name)
    ELSE <<"s", "p", "i", "c", "e", "-">> \o digits(now)

\* `spices.some((s) => s.id === candidateId)`
idTaken(sp, id) == \E i \in 1..Len(sp) : sp[i].id = id

\* The identifier handleCreateSpice gives the new product (lines 526-533).
spiceIdOf(sp, name, now) ==
    LET candidateId == candidateIdOf(name, now)
    IN  IF idTaken(sp, candidateId) THEN candidateId \o <<"-">> \o digits(now)
        ELSE candidateId

\* The text of the price field and what Number() makes of it: the empty
\* text is 0, text that is no number is NaN, "Infinity" is infinite, and a
\* decimal is the finite value q/4.
PriceText(k, q) == [k |-> k, q |-> q]

\* The price test with `<` for `<=`: a price of 0 passes.
priceValidFromZero(price) == price.k = "fin" /\ price.q >= 0

\* `Number.isFinite(priceNumber) && priceNumber > 0`
priceValid(price) == price.k = "fin" /\ price.q > 0

\* Math.round of q/4: the nearest integer, halves rounded up.
roundQuarters(q) == (q + 2) \div 4

NameMissing == S("Give your spice a name before adding it.")
PriceInvalid == S("Enter a valid price in INR.")
Added == S("Added to your Homelike catalog.")

handleCreateSpice(now, fails) ==
    /\ phase = "ready"
    /\ IF isBlank(newSpice.name)
       THEN /\ adminMessage' = NameMissing
            /\ writes' = writes
            /\ UNCHANGED <<storage, spices, newSpice, crashed>>
       ELSE IF ~priceValid(newSpice.price)
       THEN /\ adminMessage' = PriceInvalid
            /\ writes' = writes
            /\ UNCHANGED <<storage, spices, newSpice, crashed>>
       ELSE /\ spices' = Append(spices,
                            [id |-> spiceIdOf(spices, newSpice.name, now),
                             name |-> trim(newSpice.name),
                             price |-> roundQuarters(newSpice.price.q),
                             imageDataUrl |-> newSpice.imageDataUrl])
            /\ newSpice' = emptyDraft
            /\ adminMessage' = Added
            /\ Persisted({"spices"}, fails)
    /\ UNCHANGED <<phase, initialized, adminConfig, users, orders, currentUserId,
                   quantities, form, orderStatus, orderError, profileStatus, reads,
                   href, session, saved>>

\* The onChange handlers of the product draft (lines 1392, 1403).
setNewSpiceName(v) ==
    /\ phase = "ready"
    /\ newSpice' = [newSpice EXCEPT !.name = v]
    /\ writes' = writes
    /\ UNCHANGED <<storage, phase, initialized, stores, currentUserId, quantities,
                   form, messages, reads, href, session, saved, crashed>>

setNewSpicePrice(v) ==
    /\ phase = "ready"
    /\ newSpice' = [newSpice EXCEPT !.price = v]
    /\ writes' = writes
    /\ UNCHANGED <<storage, phase, initialized, stores, currentUserId, quantities,
                   form, messages, reads, href, session, saved, crashed>>

\* handleSpiceImageChange starts a FileReader read that will yield `result`.
handleSpiceImageChange(result) ==
    /\ phase = "ready"
    /\ reads' = reads \cup {result}
    /\ writes' = writes
    /\ UNCHANGED <<storage, phase, initialized, stores, currentUserId, quantities,
                   form, messages, newSpice, href, session, saved, crashed>>

\* reader.onloadend: the result goes into whatever draft is current.
onloadend(result) ==
    /\ phase = "ready"
    /\ result \in reads
    /\ reads' = reads \ {result}
    /\ newSpice' = [newSpice EXCEPT !.imageDataUrl = result]
    /\ writes' = writes
    /\ UNCHANGED <<storage, phase, initialized, stores, currentUserId, quantities,
                   form, messages, href, session, saved, crashed>>

\* ------------------------------------------------------------ form, config
\* `setAdminConfig((prev) => ({ ...prev, adminEmail: e.target.value }))`
setAdminEmail(v, fails) ==
    /\ phase = "ready"
    /\ adminConfig' = spread(adminConfig, [adminEmail |-> v])
    /\ UNCHANGED <<spices, users, orders>>
    /\ Persisted({"admin"}, fails)
    /\ UNCHANGED <<phase, initialized, currentUserId, quantities, form, messages,
                   newSpice, reads, href, session, saved>>

\* The onChange handlers of the order form (lines 970-1055): field is the
\* state cell the input is bound to.
setOrderField(field, v) ==
    /\ phase = "ready"
    /\ orderName' = IF field = "name" THEN v ELSE orderName
    /\ orderEmail' = IF field = "email" THEN v ELSE orderEmail
    /\ orderPhone' = IF field = "phone" THEN v ELSE orderPhone
    /\ orderAddress' = IF field = "address" THEN v ELSE orderAddress
    /\ orderCity' = IF field = "city" THEN v ELSE orderCity
    /\ orderPostalCode' = IF field = "postalCode" THEN v ELSE orderPostalCode
    /\ orderNote' = IF field = "note" THEN v ELSE orderNote
    /\ paymentMethod' = IF field = "paymentMethod" THEN v ELSE paymentMethod
    /\ writes' = writes
    /\ UNCHANGED <<storage, phase, initialized, stores, currentUserId, quantities,
                   messages, newSpice, reads, href, session, saved, crashed>>

\* ---------------------------------------------------------- specifications
Fresh == [s \in Slots |-> Absent]

\* A first visit: nothing stored on the device.
Init ==
    /\ Constructed
    /\ storage = Fresh
    /\ session = 1
    /\ saved = NoSaved
    /\ crashed = FALSE

Clock == 1..MaxClock

\* Room left in the stores the model lets grow.
RoomForOrder == Len(orders) < MaxOrders
RoomForSpice == Len(spices) < Len(defaultSpices) + MaxCreated
RoomForUser == Len(users) < MaxUsers

\* The values the quantity controls and direct calls hand over.
QuantityValues == {NaN, Infinity, NegInfinity} \cup {Finite(h) : h \in (-2)..MaxHalves}

ChaiMasala == <<"C", "h", "a", "i", " ", "M", "a", "s", "a", "l", "a">>

\* Submissions: a cart over the first two products, the order form, the
\* configured admin address.
Next ==
    \/ Mount({})
    \/ \E h \in {0, 4} : handleQuantityChange(spices[1].id, Finite(h))
    \/ \E h \in {0, 2} : handleQuantityChange(spices[2].id, Finite(h))
    \/ \E v \in {<<>>, <<" ", "a">>} : setOrderField("name", v)
    \/ \E v \in {<<" ">>, <<"a">>} : setOrderField("email", v)
    \/ \E v \in {<<>>, <<"n">>} : setOrderField("note", v)
    \/ setAdminEmail(<<" ", "m">>, {})
    \/ \E now \in Clock : RoomForOrder /\ handlePlaceOrder(now, {})

Spec == Init /\ [][Next]_vars

\* The shop with a growing catalog: products are created, put in the cart
\* and ordered.
NextShop ==
    \/ Mount({})
    \/ setNewSpiceName(ChaiMasala)
    \/ setNewSpicePrice(PriceText("fin", 6))
    \/ \E now \in Clock : RoomForSpice /\ handleCreateSpice(now, {})
    \/ \E i \in 1..Len(spices), h \in {0, 4} :
            /\ i = 1 \/ i > Len(defaultSpices)
            /\ handleQuantityChange(spices[i].id, Finite(h))
    \/ \E field \in {"name", "email"} : setOrderField(field, <<"a">>)
    \/ \E now \in Clock : RoomForOrder /\ handlePlaceOrder(now, {})

SpecShop == Init /\ [][NextShop]_vars

\* The cart alone, under every kind of value, with submissions in between.
NextCart ==
    \/ Mount({})
    \/ \E i \in 1..2, value \in QuantityValues :
            handleQuantityChange(spices[i].id, value)
    \/ \E field \in {"name", "email"} : setOrderField(field, <<"a">>)
    \/ \E now \in Clock : RoomForOrder /\ handlePlaceOrder(now, {})

SpecCart == Init /\ [][NextCart]_vars

\* What a device may hold in each slot before a page load: nothing, the
\* empty string, text that is not JSON, JSON of another shape, or a valid
\* document.
text(v) == [k |-> "json", v |-> v]

storedUser == [id |-> <<"u", "s", "e", "r", "-", "0">>, name |-> <<"b">>,
               email |-> <<"b">>]

storedOrder ==
    [id |-> <<"H", "L", "-", "0">>, createdAt |-> <<"T", "0">>,
     customerName |-> <<"b">>, customerEmail |-> <<"b">>,
     paymentMethod |-> S("UPI"),
     items |-> << [spiceId |-> S("everyday-sabzi"), name |-> S("Everyday Sabzi Blend"),
                   quantity |-> 1, unitPrice |-> 199, subtotal |-> 199] >>,
     total |-> 199]

AdminDocs == {Absent, Garbage, text(JsonArray(<<S("x")>>)),
              text(JsonObject([adminEmail |-> <<"b">>]))}
SpicesDocs == {Absent, Garbage, text(JsonArray(<<>>)),
               text(JsonArray(<<defaultSpices[3]>>))}
UsersDocs == {Absent, Garbage, text(JsonObject(<<>>)), text(JsonArray(<<storedUser>>))}
OrdersDocs == {Absent, EmptyText, Garbage, text(JsonArray(<<storedOrder>>))}

\* At most one slot is out of quota during a commit.
FailSets == {{}} \cup {{s} : s \in Slots}

InitPersist ==
    /\ Constructed
    /\ storage \in {[admin |-> a, spices |-> b, users |-> c, orders |-> d] :
                        a \in AdminDocs, b \in SpicesDocs, c \in UsersDocs,
                        d \in OrdersDocs}
    /\ session = 1
    /\ saved = NoSaved
    /\ crashed = FALSE

\* Page loads over whatever the device holds, with setItem calls that may
\* throw, profile saves and configuration edits in between.
NextPersist ==
    \/ \E fails \in FailSets : Mount(fails)
    \/ Reload
    \/ \E field \in {"name", "email"} : setOrderField(field, <<"a">>)
    \/ \E fails \in SUBSET {"users"} : RoomForUser /\ handleSaveProfile(1, fails)
    \/ \E fails \in SUBSET {"admin"} : setAdminEmail(<<"a">>, fails)

SpecPersist == InitPersist /\ [][NextPersist]_vars

\* A returning visitor's device may hold one earlier order.
InitHistory ==
    /\ Constructed
    /\ storage \in {Fresh, [Fresh EXCEPT !.orders = text(JsonArray(<<storedOrder>>))]}
    /\ session = 1
    /\ saved = NoSaved
    /\ crashed = FALSE

RoomInHistory == Len(orders) < MaxHistory

\* Every kind of operation around the submissions: the cart, a profile
\* save, a product creation with an image read, a configuration edit.
NextHistory ==
    \/ Mount({})
    \/ handleQuantityChange(spices[1].id, Finite(2))
    \/ \E field \in {"name", "email"} : setOrderField(field, <<"a">>)
    \/ RoomForUser /\ handleSaveProfile(1, {})
    \/ setNewSpiceName(<<"x">>)
    \/ setNewSpicePrice(PriceText("fin", 4))
    \/ handleSpiceImageChange(<<"i">>)
    \/ onloadend(<<"i">>)
    \/ Len(spices) <= Len(defaultSpices) /\ handleCreateSpice(1, {})
    \/ setAdminEmail(<<"m">>, {})
    \/ RoomInHistory /\ handlePlaceOrder(1, {})

SpecHistory == InitHistory /\ [][NextHistory]_vars

\* Submissions under each kind of configured admin address: none, blanks
\* only, an address with a leading blank.
NextHandOff ==
    \/ Mount({})
    \/ handleQuantityChange(spices[1].id, Finite(2))
    \/ \E field \in {"name", "email"} : setOrderField(field, <<"a">>)
    \/ \E v \in {<<>>, <<" ">>, <<" ", "m">>} : setAdminEmail(v, {})
    \/ \E now \in Clock : RoomInHistory /\ handlePlaceOrder(now, {})

SpecHandOff == Init /\ [][NextHandOff]_vars

\* A save may always update a stored profile; it may add one while there
\* is room.
RoomForProfile == RoomForUser \/ findIndexByEmail(users, orderEmail) # 0

\* Profiles from an empty store: names and emails typed in either letter
\* case and with blanks around, saved under any clock reading, chosen again.
NextProfiles ==
    \/ Mount({})
    \/ \E v \in {<<>>, <<"n">>, <<"N", " ">>} : setOrderField("name", v)
    \/ \E v \in {<<" ">>, <<"a">>, <<"A">>, <<" ", "b">>} : setOrderField("email", v)
    \/ \E v \in {<<>>, <<"c">>} : setOrderField("city", v)
    \/ \E now \in Clock : RoomForProfile /\ handleSaveProfile(now, {})
    \/ \E i \in 1..MaxUsers : handleUseProfile(i)

SpecProfiles == Init /\ [][NextProfiles]_vars

\* The data URL read from the file chosen while the catalog had n products.
imageChosenAt(n) == <<"d", "a", "t", "a", ":">> \o digits(n - Len(defaultSpices))

\* The texts typed into the price field: nothing, no number, "Infinity",
\* 0, -1, 0.25, 0.5, 1.5.
PriceTexts ==
    {PriceText("empty", 0), PriceText("nan", 0), PriceText("inf", 0),
     PriceText("fin", 0), PriceText("fin", -4), PriceText("fin", 1),
     PriceText("fin", 2), PriceText("fin", 6)}

\* The admin panel: drafts with every kind of name and price, with or
\* without an image, submitted for creation.
NextCatalog ==
    \/ Mount({})
    \/ \E v \in {<<>>, <<" ">>, ChaiMasala} : setNewSpiceName(v)
    \/ \E v \in PriceTexts : setNewSpicePrice(v)
    \/ handleSpiceImageChange(<<"i">>)
    \/ onloadend(<<"i">>)
    \/ RoomForSpice /\ handleCreateSpice(1, {})

SpecCatalog == Init /\ [][NextCatalog]_vars

\* Products created one after another under any clock reading, each with
\* an image read that completes at any later time.
NextImages ==
    \/ Mount({})
    \/ setNewSpiceName(ChaiMasala)
    \/ setNewSpicePrice(PriceText("fin", 6))
    \/ handleSpiceImageChange(imageChosenAt(Len(spices)))
    \/ \E result \in reads : onloadend(result)
    \/ \E now \in Clock : RoomForSpice /\ handleCreateSpice(now, {})

SpecImages == Init /\ [][NextImages]_vars

\* The identifier of a product the catalog does not hold.
Discontinued == <<"g", "o", "n", "e">>

\* A cart whose entries may name a product that is not in the catalog:
\* handleQuantityChange takes any identifier.
NextStale ==
    \/ Mount({})
    \/ \E i \in 1..2, h \in {0, 2} : handleQuantityChange(spices[i].id, Finite(h))
    \/ \E h \in {0, 4} : handleQuantityChange(Discontinued, Finite(h))
    \/ \E field \in {"name", "email"} : setOrderField(field, <<"a">>)
    \/ \E now \in Clock : RoomInHistory /\ handlePlaceOrder(now, {})

SpecStale == Init /\ [][NextStale]_vars

\* Orders from a form whose optional fields are filled in any combination,
\* handed off or stored.
NextReceipt ==
    \/ Mount({})
    \/ handleQuantityChange(spices[1].id, Finite(2))
    \/ \E field \in {"name", "email"} : setOrderField(field, <<"a">>)
    \/ setOrderField("phone", <<"1">>)
    \/ setOrderField("address", <<"s">>)
    \/ setOrderField("city", <<"c">>)
    \/ setOrderField("postalCode", <<"p">>)
    \/ setOrderField("note", <<"n">>)
    \/ setAdminEmail(<<"m">>, {})
    \/ RoomForOrder /\ handlePlaceOrder(1, {})

SpecReceipt == Init /\ [][NextReceipt]_vars

\* A page load during which one setItem may throw, then operations on each
\* of the four stores whose setItem calls succeed.
NextSaves ==
    \/ \E fails \in FailSets : Mount(fails)
    \/ \E v \in {<<>>, <<"m">>} : setAdminEmail(v, {})
    \/ setNewSpiceName(ChaiMasala)
    \/ setNewSpicePrice(PriceText("fin", 6))
    \/ RoomForSpice /\ handleCreateSpice(1, {})
    \/ \E field \in {"name", "email"} : setOrderField(field, <<"a">>)
    \/ RoomForUser /\ handleSaveProfile(1, {})
    \/ handleQuantityChange(spices[1].id, Finite(2))
    \/ RoomForOrder /\ handlePlaceOrder(1, {})

SpecSaves == Init /\ [][NextSaves]_vars

\* A first visit on a device whose setItem may throw at any call: profile
\* saves and configuration edits.
NextQuota ==
    \/ \E fails \in FailSets : Mount(fails)
    \/ setOrderField("name", <<"a">>)
    \/ \E v \in {<<"a">>, <<"b">>} : setOrderField("email", v)
    \/ \E fails \in SUBSET {"users"} : RoomForUser /\ handleSaveProfile(1, fails)
    \/ \E fails \in SUBSET {"admin"} : setAdminEmail(<<"a">>, fails)

SpecQuota == Init /\ [][NextQuota]_vars

\* The profile form with names and emails that are empty, blank or typed,
\* saved under any clock reading.
NextUpsert ==
    \/ Mount({})
    \/ \E v \in {<<>>, <<" ">>, <<"n">>, <<" ", "m">>} : setOrderField("name", v)
    \/ \E v \in {<<>>, <<" ">>, <<"a">>, <<"B", " ">>} : setOrderField("email", v)
    \/ \E now \in Clock : RoomForProfile /\ handleSaveProfile(now, {})

SpecUpsert == Init /\ [][NextUpsert]_vars

\* The order form filled with blanks and with text that has blanks around
\* it, a cart set from whole and fractional values, and submissions.
NextContact ==
    \/ Mount({})
    \/ \E h \in {0, 3, 5} : handleQuantityChange(spices[1].id, Finite(h))
    \/ setOrderField("name", <<" ", "a", " ">>)
    \/ \E v \in {<<" ">>, <<"a", " ">>} : setOrderField("email", v)
    \/ \E v \in {<<" ">>, <<" ", "1">>} : setOrderField("phone", v)
    \/ setOrderField("city", <<" ">>)
    \/ \E v \in {<<" ">>, <<"n", " ">>} : setOrderField("note", v)
    \/ RoomForOrder /\ handlePlaceOrder(1, {})

\* One page load over whatever the device holds, and the configuration
\* edits and form input that follow it.
NextLoad ==
    \/ \E fails \in FailSets : Mount(fails)
    \/ \E fails \in SUBSET {"admin"} : setAdminEmail(<<"a">>, fails)
    \/ setOrderField("name", <<"a">>)

\* React runs the effects of the first commit: the load effect is not
\* put off for ever.
SpecContact == Init /\ [][NextContact]_vars

SpecLoad ==
    InitPersist /\ [][NextLoad]_vars /\ WF_vars(\E fails \in FailSets : Mount(fails))

\* ================================================================== claims
\* The step in which a page load's first commit runs its effects.
MountStep == phase = "boot" /\ phase' = "ready"

storeAfter(slot) ==
    CASE slot = "admin" -> adminConfig' [] slot = "spices" -> spices'
      [] slot = "users" -> users' [] slot = "orders" -> orders'

\* The default a store holds when nothing was loaded into it.
defaultOf(slot) ==
    CASE slot = "admin" -> defaultAdminConfig [] slot = "spices" -> defaultSpices
      [] slot = "users" -> <<>> [] slot = "orders" -> <<>>

\* C1: no setItem call is issued before the load step has finished: every
\* call recorded was made by an effect that saw initialized = true, and
\* none is made while the page load's effects have not run.
C1_SaveOnlyAfterLoad ==
    /\ \A w \in writes : w.initialized
    /\ phase = "boot" => writes = {}

\* A page load over a stored profile: the four saves were issued after the
\* load and the profile is still there.
C1_Witness ==
    /\ phase = "ready" /\ initialized
    /\ {w.slot : w \in writes} = Slots
    /\ users = <<storedUser>>
    /\ storage.users = text(JsonArray(<<storedUser>>))

\* The slot holds text JSON.parse rejects.
Unparseable(doc) == doc.k = "garbage"

\* The slot holds JSON of another shape than the store's: not an object for
\* the configuration, not an array for the three collections.
WrongShape(slot, doc) ==
    /\ doc.k = "json"
    /\ IF slot = "admin" THEN doc.v.t # "obj" ELSE doc.v.t # "arr"

\* C2: loading while a store's slot holds unparseable data or a value of
\* the wrong shape raises no error and leaves that store at its default.
C2_CorruptSlotKeepsDefault ==
    [][MountStep =>
        /\ ~crashed'
        /\ \A s \in Slots :
              (Unparseable(storage[s]) \/ WrongShape(s, storage[s]))
                  => storeAfter(s) = defaultOf(s)]_vars

\* The part of C2 about unparseable text alone.
C2_UnparseableKeepsDefault ==
    [][MountStep =>
        /\ ~crashed'
        /\ \A s \in Slots : Unparseable(storage[s]) => storeAfter(s) = defaultOf(s)]_vars

\* Two objects read the same: the same keys hold a value, and the same one.
SameObject(a, b) == stringifyObject(a) = stringifyObject(b)

\* Two stores are equivalent: the configuration reads the same; a
\* collection has the same elements in the same order.
Equivalent(slot, a, b) ==
    IF slot = "admin" THEN SameObject(a, b)
    ELSE /\ Len(a) = Len(b)
         /\ \A i \in 1..Len(a) : SameObject(a[i], b[i])

\* C3: a store whose value was saved (its slot held the saved text when the
\* page was closed) is reproduced by the load of the next page load.
C3_RoundTrip ==
    [][(MountStep /\ session > 1) =>
        \A s \in Slots :
            saved[s].synced => Equivalent(s, storeAfter(s), saved[s].value)]_vars

\* The round trip when every slot held its store's saved text.
C3_RoundTripAllSaved ==
    [][(MountStep /\ session > 1 /\ \A s \in Slots : saved[s].synced) =>
        \A s \in Slots : Equivalent(s, storeAfter(s), saved[s].value)]_vars

\* C4: every quantity stored in the cart mapping is an integer >= 1.
C4_StoredQuantitiesPositive ==
    \A k \in DOMAIN quantities : quantities[k] \in Nat /\ quantities[k] >= 1

\* Two entries, stored from the fractional values 2.5 and 1.5.
C4_Witness ==
    /\ Cardinality(DOMAIN quantities) = 2
    /\ \E k \in DOMAIN quantities : quantities[k] = 2
    /\ \E k \in DOMAIN quantities : quantities[k] = 1

\* C5: hasSelection is true exactly when the cart mapping has an entry.
C5_HasSelectionIffEntry == hasSelection <=> (DOMAIN quantities # {})

\* A cart whose entries all hold 1, after an accepted submission emptied
\* an earlier one.
C5_Witness ==
    /\ hasSelection
    /\ \A k \in DOMAIN quantities : quantities[k] = 1
    /\ orders # <<>>

\* The price the catalog shows for a product: that of its first entry.
catalogPrice(id) ==
    spices[CHOOSE i \in 1..Len(spices) :
              spices[i].id = id /\ \A j \in 1..(i - 1) : spices[j].id # id].price

RECURSIVE CartSum(_)
CartSum(ids) ==
    IF ids = {} THEN 0
    ELSE LET k == CHOOSE x \in ids : TRUE
         IN  (IF idTaken(spices, k) THEN catalogPrice(k) * quantities[k] ELSE 0)
             + CartSum(ids \ {k})

\* C6: estimatedTotal is the sum, over the entries of the cart mapping, of
\* the catalog price of the product times the stored quantity, each entry
\* counted once.
C6_EstimatedTotalIsCartSum == estimatedTotal = CartSum(DOMAIN quantities)

\* A step in which handlePlaceOrder ran and did something.
SubmissionStep ==
    /\ phase = "ready" /\ phase' = "ready"
    /\ <<orderError, orderStatus, orders>>' # <<orderError, orderStatus, orders>>

\* A step in which a submission was accepted.
AcceptedStep ==
    /\ phase = "ready" /\ phase' = "ready"
    /\ Len(orders') = Len(orders) + 1

RECURSIVE SumSubtotals(_)
SumSubtotals(items) ==
    IF items = <<>> THEN 0 ELSE Head(items).subtotal + SumSubtotals(Tail(items))

\* C7: an accepted order holds exactly one item per cart entry whose
\* product is in the catalog, with the catalog's name and price and the cart
\* quantity; each subtotal is price times quantity and the total their sum.
C7_OneItemPerCartEntry ==
    [][AcceptedStep =>
        LET order == orders'[Len(orders')]
            items == order.items
            inCatalog == {k \in DOMAIN quantities : idTaken(spices, k)}
        IN  /\ Len(items) = Cardinality(inCatalog)
            /\ \A k \in inCatalog :
                  Cardinality({i \in 1..Len(items) : items[i].spiceId = k}) = 1
            /\ \A i \in 1..Len(items) :
                  /\ items[i].spiceId \in inCatalog
                  /\ items[i].quantity = quantities[items[i].spiceId]
                  /\ \E j \in 1..Len(spices) :
                        /\ spices[j].id = items[i].spiceId
                        /\ spices[j].name = items[i].name
                        /\ spices[j].price = items[i].unitPrice
                  /\ items[i].subtotal = items[i].unitPrice * items[i].quantity
            /\ order.total = SumSubtotals(items)]_vars

\* C8: an accepted submission empties the cart mapping and the order note
\* and leaves the contact fields, the payment method and the active
\* profile pointer as they were.
C8_AcceptedClearsCartAndNoteOnly ==
    [][AcceptedStep =>
        /\ quantities' = <<>>
        /\ orderNote' = <<>>
        /\ UNCHANGED <<orderName, orderEmail, orderPhone, orderAddress, orderCity,
                       orderPostalCode, paymentMethod, currentUserId>>]_vars

\* An order placed with a note: the note is in the order, the form's note
\* and the cart are empty, the contact fields still filled.
C8_Witness ==
    /\ orders # <<>>
    /\ orders[Len(orders)].note = <<"n">>
    /\ quantities = <<>> /\ orderNote = <<>>
    /\ orderName = <<" ", "a">> /\ orderEmail = <<"a">>
    /\ orderStatus = Drafted

\* C9: a submission with name or email blank after trimming, or with an
\* empty cart, appends no order, leaves the cart, the note and the contact
\* fields unchanged, hands nothing off and writes nothing.
C9_RejectionChangesNothing ==
    [][(SubmissionStep /\ (isBlank(orderName) \/ isBlank(orderEmail)
                           \/ DOMAIN quantities = {})) =>
        /\ orderError' # Null
        /\ UNCHANGED <<orders, quantities, orderNote, orderName, orderEmail,
                       orderPhone, orderAddress, orderCity, orderPostalCode,
                       href, storage>>]_vars

\* A submission rejected for a blank email only: cart and note still there.
C9_Witness ==
    /\ orderError = MissingContact
    /\ ~isBlank(orderName) /\ isBlank(orderEmail)
    /\ quantities # <<>> /\ orderNote = <<"n">>
    /\ orders = <<>>

\* C10: with name or email blank the reason reported is the missing contact
\* fields, whatever the cart holds; the empty cart is reported only when
\* both are filled.
C10_ContactCheckedFirst ==
    [][SubmissionStep =>
        /\ (isBlank(orderName) \/ isBlank(orderEmail)) => orderError' = MissingContact
        /\ orderError' = EmptyCart => ~isBlank(orderName) /\ ~isBlank(orderEmail)]_vars

\* Both checks fail and the contact fields are the reason given.
C10_Witness ==
    /\ orderError = MissingContact
    /\ isBlank(orderName)
    /\ quantities = <<>>
    /\ orders = <<>>

\* The first n elements of a sequence.
Prefix(q, n) == SubSeq(q, 1, n)

\* C11: once loading has completed, every operation leaves the previous
\* order history as an unchanged prefix of the new one, and an accepted
\* submission extends it by exactly one order, placed last.
C11_HistoryAppendOnly ==
    [][(phase = "ready" /\ phase' = "ready") =>
        /\ Len(orders') >= Len(orders)
        /\ Prefix(orders', Len(orders)) = orders
        /\ (orderStatus' # Null /\ orderStatus' # orderStatus)
              => Len(orders') = Len(orders) + 1
        /\ Len(orders') <= Len(orders) + 1
        /\ (Len(orders') = Len(orders) + 1) =>
              /\ orders'[Len(orders')].customerName = trim(orderName)
              /\ orders'[Len(orders')].items = itemsOf(selectedOf(spices, quantities))]_vars

\* The loaded order is still first after a profile save, a product
\* creation and a submission, whose order comes after it.
C11_Witness ==
    /\ Len(orders) = 2
    /\ orders[1] = storedOrder
    /\ orders[2].customerName = <<"a">>
    /\ users # <<>>
    /\ Len(spices) > Len(defaultSpices)

\* C12: the orders of the history have pairwise distinct identifiers.
C12_OrderIdsDistinct ==
    \A i, j \in 1..Len(orders) : i # j => orders[i].id # orders[j].id

\* A step in which handleSaveProfile stored a profile.
SavedStep ==
    /\ phase = "ready" /\ phase' = "ready"
    /\ users' # users \/ (profileStatus' # profileStatus /\ currentUserId' # Null
                          /\ ~isBlank(orderName) /\ ~isBlank(orderEmail))

\* The indices of the profiles whose email is `email`, letter case aside.
WithEmail(us, email) == {i \in 1..Len(us) : toLowerCase(us[i].email) = toLowerCase(email)}

IdsDistinct(us) == \A i, j \in 1..Len(us) : i # j => us[i].id # us[j].id

\* C13: from an empty store, no two stored profiles have emails that are
\* equal when compared case-insensitively.
C13_OneProfilePerEmail ==
    \A i, j \in 1..Len(users) :
        i # j => toLowerCase(users[i].email) # toLowerCase(users[j].email)

\* The same, as long as the saves gave the profiles distinct identifiers.
C13_OneProfilePerEmailDistinctIds == IdsDistinct(users) => C13_OneProfilePerEmail

\* C14: after a save, exactly one stored profile has the saved email,
\* letter case aside, and it carries the fields of that save; saving the
\* same input once more, under any clock reading, leaves the store as the
\* first save left it.
C14_UpsertIdempotent ==
    [][SavedStep =>
        /\ Cardinality(WithEmail(users', trim(orderEmail))) = 1
        /\ \A i \in WithEmail(users', trim(orderEmail)) :
              /\ users'[i].name = trim(orderName)
              /\ users'[i].email = trim(orderEmail)
              /\ users'[i].city = orUndefined(trim(orderCity))
        /\ \A now \in Clock : nextUsers(users', now) = users']_vars

\* The same, for saves that leave the profiles with distinct identifiers.
C14_UpsertIdempotentDistinctIds ==
    [][(SavedStep /\ IdsDistinct(users')) =>
        /\ Cardinality(WithEmail(users', trim(orderEmail))) = 1
        /\ \A i \in WithEmail(users', trim(orderEmail)) :
              /\ users'[i].name = trim(orderName)
              /\ users'[i].email = trim(orderEmail)
              /\ users'[i].city = orUndefined(trim(orderCity))
        /\ \A now \in Clock : nextUsers(users', now) = users']_vars

\* A step in which handleCreateSpice ran and did something.
CreateStep ==
    /\ phase = "ready" /\ phase' = "ready"
    /\ adminMessage' # adminMessage \/ spices' # spices

\* A step in which a product was added.
AddedStep == phase = "ready" /\ phase' = "ready" /\ Len(spices') = Len(spices) + 1

\* C15: a successful addProduct gives the new product an identifier that
\* differs from every identifier in the catalog, leaves the existing
\* products unchanged and in their order, and places the new one last.
C15_AddNeverDuplicates ==
    [][AddedStep =>
        /\ Prefix(spices', Len(spices)) = spices
        /\ \A i \in 1..Len(spices) : spices[i].id # spices'[Len(spices')].id]_vars

\* The same without the identifier: the existing products stay, the new
\* one is last.
C15_AddAppends ==
    [][AddedStep =>
        /\ Prefix(spices', Len(spices)) = spices
        /\ spices'[Len(spices')].name = trim(newSpice.name)]_vars

\* C16: addProduct with a blank name, or with a price that is not a finite
\* number greater than 0, reports a validation message, leaves the catalog
\* unchanged and does not reset the draft.
C16_InvalidDraftRejected ==
    [][(CreateStep /\ (trim(newSpice.name) = <<>> \/ newSpice.price.k # "fin"
                       \/ newSpice.price.q <= 0)) =>
        /\ adminMessage' \in {NameMissing, PriceInvalid}
        /\ spices' = spices
        /\ newSpice' = newSpice]_vars

\* A draft with a name, an image and the price 0 was rejected, after an
\* earlier product had been added: the draft is still there.
C16_Witness ==
    /\ adminMessage = PriceInvalid
    /\ newSpice.name = ChaiMasala
    /\ newSpice.price = PriceText("fin", 0)
    /\ newSpice.imageDataUrl # Undefined
    /\ Len(spices) = Len(defaultSpices) + 1

\* C17: every product of the catalog has an integer price >= 1.
C17_PricesPositive ==
    \A i \in 1..Len(spices) : spices[i].price \in Nat /\ spices[i].price >= 1

\* C18: an image read that completes after the draft it was requested for
\* was reset is not applied: the draft holds no image or the one chosen for
\* it, and so does every product created.
C18_LateImageNotApplied ==
    /\ newSpice.imageDataUrl \in {Undefined, imageChosenAt(Len(spices))}
    /\ \A i \in (Len(defaultSpices) + 1)..Len(spices) :
          spices[i].imageDataUrl \in {Undefined, imageChosenAt(i - 1)}

\* The new order has one item per cart entry whose product the catalog
\* holds, and none for the others.
SkipsAbsent(order) ==
    /\ \A i \in 1..Len(order.items) :
          /\ order.items[i].spiceId \in DOMAIN quantities
          /\ idTaken(spices, order.items[i].spiceId)
    /\ \A k \in DOMAIN quantities :
          idTaken(spices, k) => \E i \in 1..Len(order.items) : order.items[i].spiceId = k

C19_AbsentSkippedBesidePresent ==
    [][(SubmissionStep /\ ~isBlank(orderName) /\ ~isBlank(orderEmail)
        /\ \E k \in DOMAIN quantities : quantities[k] > 0 /\ idTaken(spices, k)) =>
        /\ orderError' = Null
        /\ Len(orders') = Len(orders) + 1
        /\ SkipsAbsent(orders'[Len(orders')])]_vars

\* The hand-off an accepted submission makes when it makes one: to the
\* configured address, blanks around it aside, with the new order's
\* identifier as the subject.
HandedOff ==
    /\ href'.to = trim(adminConfig.adminEmail)
    /\ href'.subject = orders'[Len(orders')].id

\* C20: an accepted submission appends its order and makes one hand-off,
\* to the configured address with the order's identifier in the subject,
\* when the admin email is non-empty, and none when it is empty.
C20_HandOffIffConfigured ==
    [][AcceptedStep =>
        /\ Prefix(orders', Len(orders)) = orders
        /\ IF adminConfig.adminEmail # <<>> THEN HandedOff ELSE href' = href]_vars

\* C20 as amended: the hand-off is made when the admin email is non-empty
\* after trimming, and none when it is empty or blank; the order is
\* appended in both cases and the caller is told which one happened.
C20_HandOffIffConfiguredTrimmed ==
    [][AcceptedStep =>
        /\ Prefix(orders', Len(orders)) = orders
        /\ IF trim(adminConfig.adminEmail) # <<>>
           THEN HandedOff /\ orderStatus' = Drafted
           ELSE href' = href /\ orderStatus' = StoredOnly]_vars

\* Two orders: the first was handed off to the address configured then,
\* the second, placed after the address was blanked, was only stored.
C20_Witness ==
    /\ Len(orders) = 2
    /\ orders[1].id # orders[2].id
    /\ href.to = <<"m">> /\ href.subject = orders[1].id
    /\ adminConfig.adminEmail = <<" ">>
    /\ orderStatus = StoredOnly

NonEmpty(str) == str # <<>>

\* The indices of the receipt lines that begin with `label`.
LinesWith(lines, label) == {i \in 1..Len(lines) : lines[i] # <<>> /\ lines[i][1] = label}

\* The address line the claim describes: the non-empty parts among
\* street, city and postal code, ", " between every two of them.
JoinedAddress(street, city, postal) ==
    <<"Address: ">> \o join(SelectSeq(<<street, city, postal>>, NonEmpty), <<",", " ">>)

\* C21: the receipt of an accepted order has a single address line, the
\* non-empty parts among street, city and postal code joined by ", ", and
\* none when all three are empty; the phone line and the note line are
\* there only when phone and note are present.
C21_AddressLineJoinsParts ==
    [][AcceptedStep =>
        LET lines == bodyLinesOf(orders'[Len(orders')])
            street == trim(orderAddress)
            city == trim(orderCity)
            postal == trim(orderPostalCode)
        IN  /\ IF street = <<>> /\ city = <<>> /\ postal = <<>>
               THEN LinesWith(lines, "Address: ") = {}
               ELSE /\ Cardinality(LinesWith(lines, "Address: ")) = 1
                    /\ \A i \in LinesWith(lines, "Address: ") :
                          lines[i] = JoinedAddress(street, city, postal)
            /\ (LinesWith(lines, "Phone: ") # {}) <=> (trim(orderPhone) # <<>>)
            /\ (LinesWith(lines, "Customer note: ") # {}) <=> (trim(orderNote) # <<>>)
            /\ href' # href => href'.body = join(lines, <<"\n">>)]_vars

\* The same for orders that do not have both a city and a postal code.
C21_AddressLineOneOfCityPostal ==
    [][(AcceptedStep /\ (trim(orderCity) = <<>> \/ trim(orderPostalCode) = <<>>)) =>
        LET lines == bodyLinesOf(orders'[Len(orders')])
            street == trim(orderAddress)
            city == trim(orderCity)
            postal == trim(orderPostalCode)
        IN  /\ IF street = <<>> /\ city = <<>> /\ postal = <<>>
               THEN LinesWith(lines, "Address: ") = {}
               ELSE /\ Cardinality(LinesWith(lines, "Address: ")) = 1
                    /\ \A i \in LinesWith(lines, "Address: ") :
                          lines[i] = JoinedAddress(street, city, postal)
            /\ (LinesWith(lines, "Phone: ") # {}) <=> (trim(orderPhone) # <<>>)
            /\ (LinesWith(lines, "Customer note: ") # {}) <=> (trim(orderNote) # <<>>)
            /\ href' # href => href'.body = join(lines, <<"\n">>)]_vars

\* A step of the loaded page.
ReadyStep == phase = "ready" /\ phase' = "ready"

\* The JSON text of the store a slot persists, after the step.
jsonAfter(slot) == stringifyStore(slot, adminConfig', spices', users', orders')

InSync(slot) == storage[slot] = stringifyStore(slot, adminConfig, spices, users, orders)

\* C22: on the loaded page, with setItem calls that succeed, an operation
\* that gives a store a new value issues a setItem for that store's slot and
\* the slot then holds the JSON text of the new value; a step changes the
\* slot of no store other than the one it operated on; slots that equal
\* the JSON text of their stores still do so after the step.
C22_SaveOwnSlotOnly ==
    [][ReadyStep =>
        /\ \A s \in Slots :
              storeAfter(s) # storeOf(s) =>
                  /\ storage'[s] = jsonAfter(s)
                  /\ [slot |-> s, initialized |-> TRUE] \in writes'
        /\ \A s \in Slots :
              storage'[s] # storage[s] =>
                  /\ storage'[s] = jsonAfter(s)
                  /\ \A t \in Slots \ {s} :
                        storeAfter(t) = storeOf(t) /\ storage'[t] = storage[t]
        /\ (\A s \in Slots : InSync(s)) => (\A s \in Slots : storage'[s] = jsonAfter(s))
    ]_vars

\* The admin slot was left unwritten by the page load; a profile and an
\* order were saved since, each to its own slot, and the admin slot is
\* still as it was.
C22_Witness ==
    /\ phase = "ready"
    /\ storage["admin"] = Absent
    /\ users # <<>> /\ InSync("users")
    /\ orders # <<>> /\ InSync("orders")
    /\ InSync("spices")

\* C23: a setItem that throws is swallowed. On the loaded page no error
\* escapes; a profile save leaves the saved profile in the store and makes
\* it the active one, and an admin edit leaves the new address in the
\* configuration, whether or not the write went through; a slot is either
\* left as it was or holds the JSON text of its store, never anything else.
C23_FailedWriteSwallowed ==
    [][ReadyStep =>
        /\ ~crashed'
        /\ SavedStep =>
              LET at == findIndexByEmail(users', orderEmail)
              IN  /\ at # 0
                  /\ users'[at].name = trim(orderName)
                  /\ currentUserId' = users'[at].id
                  /\ profileStatus' \in {S("Saved a new profile in this browser."),
                                         S("Updated your saved profile.")}
        /\ adminConfig' # adminConfig => adminConfig'["adminEmail"] = <<"a">>
        /\ \A s \in Slots : storage'[s] \in {storage[s], jsonAfter(s)}
    ]_vars

\* The write of a saved profile failed (the users slot still holds "[]"
\* while the store holds the profile), and a later admin edit was saved.
C23_Witness ==
    /\ phase = "ready"
    /\ ~crashed
    /\ users # <<>>
    /\ storage["users"] = stringifyArray(<<>>)
    /\ adminConfig["adminEmail"] = <<"a">>
    /\ InSync("admin")

\* What C24 says of a save that found the profile at index `at` of the
\* store (0: none found).
UpsertInPlaceOrFresh(at) ==
    IF at # 0
    THEN /\ Len(users') = Len(users)
         /\ users'[at].id = users[at].id
         /\ users'[at].name = trim(orderName)
         /\ \A i \in 1..Len(users) : i # at => users'[i] = users[i]
    ELSE /\ Len(users') = Len(users) + 1
         /\ \A i \in 1..Len(users) :
               users'[i] = users[i] /\ users'[Len(users')].id # users[i].id

\* C24: a save whose email matches a stored profile replaces that one
\* profile in place (same identifier, same position, same number of
\* profiles) and leaves the others as they were; a save that matches none
\* appends one profile whose identifier differs from every stored one,
\* under any clock reading.
C24_UpsertInPlaceOrFresh ==
    [][SavedStep => UpsertInPlaceOrFresh(findIndexByEmail(users, orderEmail))]_vars

\* The same, for saves that leave the profiles with distinct identifiers.
C24_UpsertInPlaceOrFreshDistinctIds ==
    [][(SavedStep /\ IdsDistinct(users')) =>
        UpsertInPlaceOrFresh(findIndexByEmail(users, orderEmail))]_vars

\* A step in which handleSaveProfile ran and did something.
UpsertStep ==
    /\ ReadyStep
    /\ <<profileStatus, users, currentUserId>>' # <<profileStatus, users, currentUserId>>

\* C25: a save with a name or an email that is empty or blank reports the
\* validation message and leaves the profiles and the active profile as
\* they were; any other save makes the profile that now carries the saved
\* email and name the active one.
C25_BlankRejectedElsePointerSet ==
    [][UpsertStep =>
        IF trim(orderName) = <<>> \/ trim(orderEmail) = <<>>
        THEN /\ profileStatus' =
                   S("Add at least name and email before saving as a profile.")
             /\ users' = users
             /\ currentUserId' = currentUserId
        ELSE \E i \in 1..Len(users') :
                /\ users'[i].email = trim(orderEmail)
                /\ users'[i].name = trim(orderName)
                /\ currentUserId' = users'[i].id
    ]_vars

\* A save with a blank email was rejected after an earlier save went
\* through: the profile and the pointer to it are still there.
C25_Witness ==
    /\ profileStatus = S("Add at least name and email before saving as a profile.")
    /\ orderName = <<"n">> /\ orderEmail = <<" ">>
    /\ Len(users) = 1
    /\ currentUserId = users[1].id

\* The non-negative integer C26 gives for a value: 0 for NaN and the
\* infinities, 0 for a negative number, the integer part otherwise.
Coerced(value) ==
    IF value.k # "fin" \/ value.h < 0 THEN 0
    ELSE CHOOSE n \in 0..MaxHalves : 2 * n <= value.h /\ value.h < 2 * n + 2

\* C26: from every cart, handleQuantityChange(id, value) leaves no entry
\* for id when the coerced value is 0 and the entry id -> coerced value
\* otherwise, whatever the entry held before; every other entry is as it
\* was.
C26_SetQuantityCoerces ==
    \A i \in 1..2, value \in QuantityValues :
        LET id == spices[i].id
            next == nextQuantities(quantities, id, value)
        IN  /\ IF Coerced(value) = 0
               THEN id \notin DOMAIN next
               ELSE id \in DOMAIN next /\ next[id] = Coerced(value)
            /\ DOMAIN next \ {id} = DOMAIN quantities \ {id}
            /\ \A k \in DOMAIN quantities \ {id} : next[k] = quantities[k]

\* The cart after the first product's entry was removed and the second
\* product's entry was set from a value between 2 and 3.
C26_Witness ==
    /\ phase = "ready"
    /\ DOMAIN quantities = {spices[2].id}
    /\ quantities[spices[2].id] = 2
    /\ orders = <<>>

\* The slot holds a document of its store's shape: a configuration object,
\* a non-empty product list, a list of profiles or of orders.
ValidDoc(slot, doc) ==
    /\ doc.k = "json"
    /\ CASE slot = "admin" -> doc.v.t = "obj"
         [] slot = "spices" -> doc.v.t = "arr" /\ doc.v.a # <<>>
         [] OTHER -> doc.v.t = "arr"

\* The store was hydrated from the document: the configuration carries
\* every field of the stored object; a collection has the stored elements
\* in the stored order.
HydratedFrom(slot, doc) ==
    IF slot = "admin"
    THEN \A k \in DOMAIN doc.v.o :
            k \in DOMAIN storeAfter(slot) /\ storeAfter(slot)[k] = doc.v.o[k]
    ELSE Equivalent(slot, storeAfter(slot), doc.v.a)

\* After a page load, every slot that held a valid document gave its store
\* that document's value, and holds the document still or the JSON text of
\* the store hydrated from it.
ValidDataKept ==
    \A s \in Slots :
        ValidDoc(s, storage[s]) =>
            /\ HydratedFrom(s, storage[s])
            /\ storage'[s] \in {storage[s], jsonAfter(s)}

\* C27: a page load and the saves that follow it keep every valid stored
\* document and hydrate its store from it, also when another store's slot
\* holds corrupted or unparseable data.
C27_StartupKeepsValidData == [][MountStep => ValidDataKept]_vars

\* The same, for page loads over slots none of which holds unparseable
\* text.
C27_StartupKeepsValidDataAllParse ==
    [][(MountStep /\ \A s \in Slots : ~Unparseable(storage[s])) => ValidDataKept]_vars

\* C28: the total of an accepted order is the estimatedTotal the page
\* showed for the cart in the state the submission was made in.
C28_TotalIsEstimatedTotal ==
    [][AcceptedStep => orders'[Len(orders')].total = estimatedTotal]_vars

\* An accepted order of two of the first product and one of the second:
\* 2 * 289 + 249.
C28_Witness ==
    /\ orders # <<>>
    /\ Len(orders[Len(orders)].items) = 2
    /\ orders[Len(orders)].items[1].quantity = 2
    /\ orders[Len(orders)].items[2].quantity = 1
    /\ orders[Len(orders)].total = 2 * spices[1].price + spices[2].price
    /\ estimatedTotal = 0

\* C29: whatever the four slots hold, the page load sets initialized to
\* true in the end, and nothing sets it back to false.
C29_LoadCompletes == <>initialized /\ [][initialized => initialized']_vars

\* The load went over unparseable text in the orders slot, the write of
\* the slot failed, and an admin edit was made on the loaded page.
C29_Witness ==
    /\ initialized
    /\ Unparseable(storage["orders"])
    /\ orders = <<>>
    /\ adminConfig["adminEmail"] = <<"a">>

\* A non-empty string with no blank at either end.
Trimmed(str) == str # <<>> /\ str[1] # " " /\ str[Len(str)] # " "

OptionalFields ==
    {"customerPhone", "customerAddress", "customerCity", "customerPostalCode", "note"}

WellFormed(order) ==
    /\ Len(order.items) >= 1
    /\ \A i \in 1..Len(order.items) :
          order.items[i].quantity \in Nat /\ order.items[i].quantity >= 1
    /\ Trimmed(order.customerName)
    /\ Trimmed(order.customerEmail)
    /\ \A f \in OptionalFields : order[f] = Undefined \/ Trimmed(order[f])

\* C30: the order an accepted submission appends has at least one item,
\* integer quantities >= 1, a name and an email that are non-empty and
\* trimmed, and optional contact fields and a note that are each absent or
\* non-empty and trimmed.
C30_AppendedOrderWellFormed ==
    [][AcceptedStep => WellFormed(orders'[Len(orders')])]_vars

\* An order submitted with a blank phone and city, a note with a blank
\* after it and the quantity 1.5.
C30_Witness ==
    /\ orders # <<>>
    /\ orders[1].customerName = <<"a">>
    /\ orders[1].customerPhone = Undefined
    /\ orders[1].customerCity = Undefined
    /\ orders[1].note = <<"n">>
    /\ orders[1].items[1].quantity = 1
    /\ orderPhone = <<" ">> /\ orderCity = <<" ">>

====
